---- MODULE Spec2Model ----
(***************************************************************************)
(* Model of package version (src/version/version.go): the build-time       *)
(* literals, the Info / DockerInfo singletons written by init(), the       *)
(* legacy-text parser NewBuildInfoFromOldString and the renderers String,  *)
(* UserAgent and LongForm.                                                 *)
(*                                                                         *)
(* A Go string is modelled as a sequence of one-character strings, so that *)
(* splitting, trimming, concatenation and comparison are computed          *)
(* character by character as the library routines compute them.            *)
(***************************************************************************)
EXTENDS Integers, Sequences, FiniteSets, TLC

\* Largest number of newline-separated lines in an enumerated legacy text.
MaxLines == 2

-----------------------------------------------------------------------------
(* String literals of the source, as character sequences.                  *)

sUnknown == <<"u","n","k","n","o","w","n">>
sOss == <<"o","s","s">>
sVersion == <<"V","e","r","s","i","o","n">>
sGitRevision == <<"G","i","t","R","e","v","i","s","i","o","n">>
sGolangVersion == <<"G","o","l","a","n","g","V","e","r","s","i","o","n">>
sBuildStatus == <<"B","u","i","l","d","S","t","a","t","u","s">>
sGitTag == <<"G","i","t","T","a","g">>
sVendor == <<"V","e","n","d","o","r">>

\* "invalid BuildInfo input, field '"
sErrPrefix ==
  <<"i","n","v","a","l","i","d"," ","B","u","i","l","d","I","n","f","o"," ",
    "i","n","p","u","t",","," ","f","i","e","l","d"," ","'">>

\* "' is not valid"
sErrSuffix == <<"'"," ","i","s"," ","n","o","t"," ","v","a","l","i","d">>

-----------------------------------------------------------------------------
(* Library routines used by the package.                                   *)

\* unicode.IsSpace restricted to the characters that occur in the model.
IsSpace(c) == c \in {" ", "\t", "\n", "\r"}

\* strings.TrimSpace: drop leading, then trailing, white space.
RECURSIVE TrimLeftSpace(_)
TrimLeftSpace(s) ==
  IF s = <<>> THEN s
  ELSE IF IsSpace(Head(s)) THEN TrimLeftSpace(Tail(s)) ELSE s

RECURSIVE TrimRightSpace(_)
TrimRightSpace(s) ==
  IF s = <<>> THEN s
  ELSE IF IsSpace(s[Len(s)]) THEN TrimRightSpace(SubSeq(s, 1, Len(s) - 1)) ELSE s

TrimSpace(s) == TrimRightSpace(TrimLeftSpace(s))

\* strings.Index for a one-character separator, 1-based; 0 when absent.
RECURSIVE IndexFrom(_, _, _)
IndexFrom(s, sep, i) ==
  IF i > Len(s) THEN 0
  ELSE IF s[i] = sep THEN i ELSE IndexFrom(s, sep, i + 1)

Index(s, sep) == IndexFrom(s, sep, 1)

\* strings.SplitN(s, sep, n): at most n pieces, the last one unsplit;
\* n = 0 gives nil (the empty sequence), n < 0 splits everywhere.
RECURSIVE SplitN(_, _, _)
SplitN(s, sep, n) ==
  IF n = 0 THEN <<>>
  ELSE IF n = 1 THEN <<s>>
  ELSE LET m == Index(s, sep)
       IN IF m = 0 THEN <<s>>
          ELSE <<SubSeq(s, 1, m - 1)>>
                 \o SplitN(SubSeq(s, m + 1, Len(s)), sep, n - 1)

\* strings.Split(s, sep) is SplitN with no limit.
Split(s, sep) == SplitN(s, sep, -1)

-----------------------------------------------------------------------------
(* The record types.                                                       *)

\* BuildInfo{}: every field the empty string.
ZeroBuildInfo ==
  [Version |-> <<>>, GitRevision |-> <<>>, GolangVersion |-> <<>>,
   BuildStatus |-> <<>>, GitTag |-> <<>>, Vendor |-> <<>>]

\* DockerBuildInfo{}.
ZeroDockerBuildInfo == [Hub |-> <<>>, Tag |-> <<>>]

\* A nil error.
NilError == [isNil |-> TRUE, msg |-> <<>>]

\* fmt.Errorf("invalid BuildInfo input, field '%s' is not valid", field)
Errorf(field) == [isNil |-> FALSE, msg |-> sErrPrefix \o field \o sErrSuffix]

-----------------------------------------------------------------------------
(* NewBuildInfoFromOldString.                                              *)

\* Mutant: the blank-line test without the trimming.
IsBlankLineUntrimmed(line) == line = <<>>

\* The blank-line test of the loop.
IsBlankLine(line) == TrimSpace(line) = <<>>

\* Mutant: the line split at its last colon.
LineFieldsLastColon(line) ==
  LET cs == {k \in 1..Len(line) : line[k] = ":"}
  IN IF cs = {} THEN <<line>>
     ELSE LET m == CHOOSE k \in cs : \A j \in cs : j <= k
          IN <<SubSeq(line, 1, m - 1), SubSeq(line, m + 1, Len(line))>>

\* fields := strings.SplitN(line, ":", 2)
LineFields(line) == SplitN(line, ":", 2)

\* Mutant: a field already set is not overwritten.
SetFieldFirstWins(r, key, value) ==
  IF key = sVersion /\ r.Version = <<>> THEN [r EXCEPT !.Version = value]
  ELSE IF key = sGitRevision /\ r.GitRevision = <<>>
    THEN [r EXCEPT !.GitRevision = value]
  ELSE IF key = sGolangVersion /\ r.GolangVersion = <<>>
    THEN [r EXCEPT !.GolangVersion = value]
  ELSE IF key = sBuildStatus /\ r.BuildStatus = <<>>
    THEN [r EXCEPT !.BuildStatus = value]
  ELSE IF key = sGitTag /\ r.GitTag = <<>> THEN [r EXCEPT !.GitTag = value]
  ELSE r

\* Mutant: the switch has a case for Vendor.
SetFieldWithVendor(r, key, value) ==
  IF key = sVersion THEN [r EXCEPT !.Version = value]
  ELSE IF key = sGitRevision THEN [r EXCEPT !.GitRevision = value]
  ELSE IF key = sGolangVersion THEN [r EXCEPT !.GolangVersion = value]
  ELSE IF key = sBuildStatus THEN [r EXCEPT !.BuildStatus = value]
  ELSE IF key = sGitTag THEN [r EXCEPT !.GitTag = value]
  ELSE IF key = sVendor THEN [r EXCEPT !.Vendor = value]
  ELSE r

\* Mutant: the switch lacks the case for GitTag.
SetFieldNoGitTag(r, key, value) ==
  IF key = sVersion THEN [r EXCEPT !.Version = value]
  ELSE IF key = sGitRevision THEN [r EXCEPT !.GitRevision = value]
  ELSE IF key = sGolangVersion THEN [r EXCEPT !.GolangVersion = value]
  ELSE IF key = sBuildStatus THEN [r EXCEPT !.BuildStatus = value]
  ELSE r

\* The switch on fields[0]: set the field a recognized key names, skip
\* every other key.
SetField(r, key, value) ==
  IF key = sVersion THEN [r EXCEPT !.Version = value]
  ELSE IF key = sGitRevision THEN [r EXCEPT !.GitRevision = value]
  ELSE IF key = sGolangVersion THEN [r EXCEPT !.GolangVersion = value]
  ELSE IF key = sBuildStatus THEN [r EXCEPT !.BuildStatus = value]
  ELSE IF key = sGitTag THEN [r EXCEPT !.GitTag = value]
  ELSE r

\* Mutant: the failing return hands back the record built so far.
InvalidFieldPartial(r, fields) == [res |-> r, err |-> Errorf(fields[1])]

\* The return statement taken on a line without a colon.
InvalidField(r, fields) == [res |-> ZeroBuildInfo, err |-> Errorf(fields[1])]

\* The loop over the lines, from the record built so far.
RECURSIVE ParseLines(_, _)
ParseLines(lines, r) ==
  IF lines = <<>> THEN [res |-> r, err |-> NilError]
  ELSE LET line == Head(lines)
       IN IF IsBlankLine(line) THEN ParseLines(Tail(lines), r)
          ELSE LET fields == LineFields(line)
               IN IF fields # <<>>
                  THEN IF Len(fields) # 2
                       THEN InvalidField(r, fields)
                       ELSE ParseLines(Tail(lines),
                                       SetField(r, fields[1], TrimSpace(fields[2])))
                  ELSE ParseLines(Tail(lines), r)

\* Mutant: the record starts with every parsed field at "unknown".
NewBuildInfoFromUnknown(oldOutput) ==
  ParseLines(Split(oldOutput, "\n"),
             [Version |-> sUnknown, GitRevision |-> sUnknown,
              GolangVersion |-> sUnknown, BuildStatus |-> sUnknown,
              GitTag |-> sUnknown, Vendor |-> <<>>])

NewBuildInfoFromOldString(oldOutput) ==
  ParseLines(Split(oldOutput, "\n"), ZeroBuildInfo)

-----------------------------------------------------------------------------
(* The renderers.                                                          *)

\* Mutant: the compact line also shows the tag.
StringWithTag(b) ==
  b.Version \o <<"-">> \o b.GitRevision \o <<"-">> \o b.BuildStatus
    \o <<"-">> \o b.GitTag

\* fmt.Sprintf("%v-%v-%v", b.Version, b.GitRevision, b.BuildStatus)
String(b) == b.Version \o <<"-">> \o b.GitRevision \o <<"-">> \o b.BuildStatus

\* os.IsPathSeparator on the unix-like targets.
IsPathSeparator(c) == c = "/"

\* filepath.Base, first loop: strip the trailing separators.
RECURSIVE StripTrailingSeparators(_)
StripTrailingSeparators(p) ==
  IF p # <<>> /\ IsPathSeparator(p[Len(p)])
  THEN StripTrailingSeparators(SubSeq(p, 1, Len(p) - 1))
  ELSE p

\* filepath.Base, second loop: the index of the last separator, 0 if none.
RECURSIVE LastSeparator(_, _)
LastSeparator(p, i) ==
  IF i = 0 THEN 0
  ELSE IF IsPathSeparator(p[i]) THEN i ELSE LastSeparator(p, i - 1)

\* filepath.Base (no volume names on the unix-like targets).
Base(path) ==
  IF path = <<>> THEN <<".">>
  ELSE LET p == StripTrailingSeparators(path)
           i == LastSeparator(p, Len(p))
           q == IF i > 0 THEN SubSeq(p, i + 1, Len(p)) ELSE p
       IN IF q = <<>> THEN <<"/">> ELSE q

\* Mutant: no default for the empty path.
adjustCommandNoDefault(p) == Base(p)

adjustCommand(p) == IF Len(p) = 0 THEN sUnknown ELSE Base(p)

\* fmt.Sprintf("%v/%v (%v/%v) istio/%v", ...) over os.Args[0], b and runtime.
UserAgent(b, args0, goos, goarch) ==
  adjustCommand(args0) \o <<"/">> \o b.Version \o <<" ","(">> \o goos
    \o <<"/">> \o goarch \o <<")"," ","i","s","t","i","o","/">> \o b.Vendor

\* The Go-syntax quoting %#v applies to a string (strconv.Quote).
QuoteChar(c) ==
  IF c = "\"" THEN <<"\\","\"">>
  ELSE IF c = "\\" THEN <<"\\","\\">>
  ELSE IF c = "\n" THEN <<"\\","n">>
  ELSE IF c = "\t" THEN <<"\\","t">>
  ELSE IF c = "\r" THEN <<"\\","r">>
  ELSE <<c>>

RECURSIVE QuoteBody(_)
QuoteBody(s) == IF s = <<>> THEN <<>> ELSE QuoteChar(Head(s)) \o QuoteBody(Tail(s))

Quote(s) == <<"\"">> \o QuoteBody(s) \o <<"\"">>

\* fmt.Sprintf("%#v", b)
LongForm(b) ==
  <<"v","e","r","s","i","o","n",".","B","u","i","l","d","I","n","f","o">> \o <<"{">>
    \o sVersion \o <<":">> \o Quote(b.Version) \o <<","," ">>
    \o sGitRevision \o <<":">> \o Quote(b.GitRevision) \o <<","," ">>
    \o sGolangVersion \o <<":">> \o Quote(b.GolangVersion) \o <<","," ">>
    \o sBuildStatus \o <<":">> \o Quote(b.BuildStatus) \o <<","," ">>
    \o sGitTag \o <<":">> \o Quote(b.GitTag) \o <<","," ">>
    \o sVendor \o <<":">> \o Quote(b.Vendor) \o <<"}">>

-----------------------------------------------------------------------------
(* Inputs of the operations, enumerated from small sets.                   *)

\* The text of a sequence of lines, each line followed by sep except the last.
RECURSIVE Join(_, _)
Join(lines, sep) ==
  IF lines = <<>> THEN <<>>
  ELSE IF Len(lines) = 1 THEN lines[1]
  ELSE lines[1] \o <<sep>> \o Join(Tail(lines), sep)

\* The five keys the switch recognizes, each with a padded and a bare value.
RecognizedLines ==
  {k \o <<":">> \o v :
     k \in {sVersion, sGitRevision, sGolangVersion, sBuildStatus, sGitTag},
     v \in {<<" ","a"," ">>, <<"b">>}}

\* Version with an empty value and with a value that holds a colon.
VersionLines ==
  {sVersion \o <<":">> \o v : v \in {<<>>, <<" ","a",":","b","\r">>}}

\* Keys the switch does not recognize: Vendor, near misses of Version, none.
UnknownKeyLines ==
  {k \o <<":","b">> :
     k \in {sVendor, <<" ">> \o sVersion, sVersion \o <<" ">>,
            <<"v","e","r","s","i","o","n">>, <<>>}}

\* Lines without a colon that are not blank, and blank lines.
NoColonLines == {<<"B","a","d">>, <<" ","x"," ">>}

BlankLines == {<<>>, <<" ","\t">>}

InputLines ==
  RecognizedLines \cup VersionLines \cup UnknownKeyLines
    \cup NoColonLines \cup BlankLines

\* Every text of at most MaxLines lines.
InputTexts ==
  {Join(ls, "\n") : ls \in UNION {[1..n -> InputLines] : n \in 0..MaxLines}}

\* Records whose five parsed fields have no newline and no white space at
\* either end.
FieldRecords ==
  [Version : {<<>>, <<"1",".","0">>, sVersion \o <<":","a">>},
   GitRevision : {<<>>, <<"a","-","b">>},
   GolangVersion : {<<>>, <<"g","o","1",".","9">>},
   BuildStatus : {<<>>, <<"C","l","e","a","n">>},
   GitTag : {<<>>, <<"a"," ",":","b">>},
   Vendor : {<<>>}]

\* Receivers of the renderers.
Receivers ==
  [Version : {<<>>, <<"1",".","0">>, sVersion \o <<":","a">>},
   GitRevision : {<<>>, <<"a","-","b">>},
   GolangVersion : {<<"g","o","1",".","9">>, <<"g","o","\"","\\","\n">>},
   BuildStatus : {<<>>, <<"C","l","e","a","n">>},
   GitTag : {sUnknown, <<"t">>},
   Vendor : {sOss, <<"G">>}]

\* The orders in which the five fields can be written.
FieldOrders == {p \in [1..5 -> 1..5] : \A i, j \in 1..5 : p[i] = p[j] => i = j}

\* The key and the value of the i-th of the five fields of a record.
FieldKey(i) ==
  <<sVersion, sGitRevision, sGolangVersion, sBuildStatus, sGitTag>>[i]

FieldValue(r, i) ==
  <<r.Version, r.GitRevision, r.GolangVersion, r.BuildStatus, r.GitTag>>[i]

\* The '--version' output of a previous component for record r: one
\* "Key: value" line per field, in order p, each ended by a newline.
LegacyText(r, p) ==
  Join([i \in 1..5 |-> FieldKey(p[i]) \o <<":"," ">> \o FieldValue(r, p[i])]
         \o << <<>> >>, "\n")

\* Values of os.Args[0].
ArgsZero ==
  {<<>>, <<"/">>, <<"/","/">>, <<"a">>, <<".","/","x">>, <<"b","i","n","/">>,
   <<"a","/","b","/","/">>,
   <<"/","u","s","r","/","b","i","n","/","i","s","t","i","o","c","t","l">>}

\* runtime.GOOS, runtime.GOARCH and runtime.Version() of two builds.
LinuxAmd64 ==
  [GOOS |-> <<"l","i","n","u","x">>, GOARCH |-> <<"a","m","d","6","4">>,
   Version |-> <<"g","o","1",".","1","0">>]

DarwinArm64 ==
  [GOOS |-> <<"d","a","r","w","i","n">>, GOARCH |-> <<"a","r","m","6","4">>,
   Version |-> <<"g","o","1",".","9">>]

Runtimes == {LinuxAmd64, DarwinArm64}

\* The build-time literals as declared, and as a release build's -ldflags -X
\* sets them.
DefaultBuild ==
  [buildVersion |-> sUnknown, buildGitRevision |-> sUnknown,
   buildStatus |-> sUnknown, buildTag |-> sUnknown, buildHub |-> sUnknown,
   buildVendor |-> sOss]

ReleaseBuild ==
  [buildVersion |-> <<"1",".","1","1",".","2">>,
   buildGitRevision |-> <<"a","b","c","d">>,
   buildStatus |-> <<"C","l","e","a","n">>,
   buildTag |-> <<"1",".","1","1",".","2","-","r","c">>,
   buildHub |-> <<"d","o","c","k","e","r",".","i","o","/","i","s","t","i","o">>,
   buildVendor |-> <<"G","o","o","g","l","e">>]

Builds == {DefaultBuild, ReleaseBuild}

-----------------------------------------------------------------------------
(* State.                                                                  *)

VARIABLES
  buildVersion, buildGitRevision, buildStatus, buildTag, buildHub, buildVendor,
  goruntime,   \* runtime.GOOS, runtime.GOARCH, runtime.Version()
  osArgs0,     \* os.Args[0]
  Info, DockerInfo,
  pc,          \* "load" before init() has run, "main" after
  text,        \* a legacy text the caller holds
  b,           \* a BuildInfo the caller holds, receiver of the renderers
  oldOutput,   \* argument of the last NewBuildInfoFromOldString call
  parsed,      \* "none", or where that argument came from: "text" or "out"
  res, err,    \* results of the last NewBuildInfoFromOldString call
  out,         \* result of the last renderer call
  rendered     \* "none", or the renderer called last

vars ==
  <<buildVersion, buildGitRevision, buildStatus, buildTag, buildHub,
    buildVendor, goruntime, osArgs0, Info, DockerInfo, pc, text, b,
    oldOutput, parsed, res, err, out, rendered>>

buildVars ==
  <<buildVersion, buildGitRevision, buildStatus, buildTag, buildHub,
    buildVendor, goruntime, osArgs0>>

\* The package-level variables before init() runs, for build literals bl.
Loaded(bl) ==
  /\ buildVersion = bl.buildVersion
  /\ buildGitRevision = bl.buildGitRevision
  /\ buildStatus = bl.buildStatus
  /\ buildTag = bl.buildTag
  /\ buildHub = bl.buildHub
  /\ buildVendor = bl.buildVendor
  /\ Info = ZeroBuildInfo
  /\ DockerInfo = ZeroDockerBuildInfo
  /\ pc = "load"
  /\ oldOutput = <<>>
  /\ parsed = "none"
  /\ res = ZeroBuildInfo
  /\ err = NilError
  /\ out = <<>>
  /\ rendered = "none"

\* A process about to parse some legacy text.
InitParse ==
  /\ Loaded(DefaultBuild)
  /\ goruntime = LinuxAmd64
  /\ osArgs0 = <<"a">>
  /\ b = ZeroBuildInfo
  /\ text \in InputTexts

\* A process about to parse the legacy output written for a record.
InitLegacy ==
  /\ Loaded(DefaultBuild)
  /\ goruntime = LinuxAmd64
  /\ osArgs0 = <<"a">>
  /\ b \in FieldRecords
  /\ \E p \in FieldOrders : text = LegacyText(b, p)

\* A process about to render a record.
InitRender ==
  /\ \E bl \in Builds : Loaded(bl)
  /\ goruntime \in Runtimes
  /\ osArgs0 \in ArgsZero
  /\ b \in Receivers
  /\ text = <<>>

Init == InitParse \/ InitLegacy \/ InitRender

-----------------------------------------------------------------------------
(* Operations.                                                             *)

\* Mutant: DockerInfo.Tag taken from buildTag.
initTagFromBuildTag ==
  /\ pc = "load"
  /\ Info' = [Version |-> buildVersion,
              GitRevision |-> buildGitRevision,
              GolangVersion |-> goruntime.Version,
              BuildStatus |-> buildStatus,
              GitTag |-> buildTag,
              Vendor |-> buildVendor]
  /\ DockerInfo' = [Hub |-> buildHub, Tag |-> buildTag]
  /\ pc' = "main"
  /\ UNCHANGED <<buildVars, text, b, oldOutput, parsed, res, err, out, rendered>>

\* func init()
init ==
  /\ pc = "load"
  /\ Info' = [Version |-> buildVersion,
              GitRevision |-> buildGitRevision,
              GolangVersion |-> goruntime.Version,
              BuildStatus |-> buildStatus,
              GitTag |-> buildTag,
              Vendor |-> buildVendor]
  /\ DockerInfo' = [Hub |-> buildHub, Tag |-> buildVersion]
  /\ pc' = "main"
  /\ UNCHANGED <<buildVars, text, b, oldOutput, parsed, res, err, out, rendered>>

\* A call NewBuildInfoFromOldString(arg), arg being the caller's legacy
\* text or the compact line rendered last.
CallNewBuildInfoFromOldString ==
  /\ pc = "main"
  /\ \E src \in {"text", "out"} :
       /\ src = "out" => rendered = "String"
       /\ LET arg == IF src = "text" THEN text ELSE out
              r == NewBuildInfoFromOldString(arg)
          IN /\ oldOutput' = arg
             /\ parsed' = src
             /\ res' = r.res
             /\ err' = r.err
  /\ UNCHANGED <<buildVars, Info, DockerInfo, pc, text, b, out, rendered>>

\* A call b.String()
CallString ==
  /\ pc = "main"
  /\ out' = String(b)
  /\ rendered' = "String"
  /\ UNCHANGED <<buildVars, Info, DockerInfo, pc, text, b, oldOutput, parsed,
                 res, err>>

\* A call b.UserAgent()
CallUserAgent ==
  /\ pc = "main"
  /\ out' = UserAgent(b, osArgs0, goruntime.GOOS, goruntime.GOARCH)
  /\ rendered' = "UserAgent"
  /\ UNCHANGED <<buildVars, Info, DockerInfo, pc, text, b, oldOutput, parsed,
                 res, err>>

\* A call b.LongForm()
CallLongForm ==
  /\ pc = "main"
  /\ out' = LongForm(b)
  /\ rendered' = "LongForm"
  /\ UNCHANGED <<buildVars, Info, DockerInfo, pc, text, b, oldOutput, parsed,
                 res, err>>

Next ==
  \/ init
  \/ CallNewBuildInfoFromOldString
  \/ CallString
  \/ CallUserAgent
  \/ CallLongForm

Spec == Init /\ [][Next]_vars

\* The same program, started in one kind of process only.
SpecParse == InitParse /\ [][Next]_vars

SpecLegacy == InitLegacy /\ [][Next]_vars

SpecRender == InitRender /\ [][Next]_vars

TypeOK ==
  /\ pc \in {"load", "main"}
  /\ parsed \in {"none", "text", "out"}
  /\ rendered \in {"none", "String", "UserAgent", "LongForm"}
  /\ err.isNil \in BOOLEAN

-----------------------------------------------------------------------------
(* Reference notions the properties are stated with.  They describe a text *)
(* by positions, without the library routines of the model.                *)

Min(S) == CHOOSE x \in S : \A y \in S : x <= y
Max(S) == CHOOSE x \in S : \A y \in S : x >= y

\* The lines of s: the maximal newline-free stretches <<i, j>> (j = i - 1
\* for an empty line).
LineSpans(s) ==
  LET starts == {1} \cup {k + 1 : k \in {m \in 1..Len(s) : s[m] = "\n"}}
      ends == {Len(s)} \cup {k - 1 : k \in {m \in 1..Len(s) : s[m] = "\n"}}
  IN {sp \in starts \X ends :
        /\ sp[2] >= sp[1] - 1
        /\ \A k \in sp[1]..sp[2] : s[k] # "\n"}

White == {" ", "\t", "\n", "\r"}

SpanBlank(s, sp) == \A k \in sp[1]..sp[2] : s[k] \in White
SpanColons(s, sp) == {k \in sp[1]..sp[2] : s[k] = ":"}
SpanText(s, sp) == SubSeq(s, sp[1], sp[2])

\* Lines that are not blank and hold no colon.
OffendingSpans(s) ==
  {sp \in LineSpans(s) : ~SpanBlank(s, sp) /\ SpanColons(s, sp) = {}}

\* Lines that are not blank and hold a colon; their key is the text before
\* the first colon, their raw value the text after it.
ColonSpans(s) ==
  {sp \in LineSpans(s) : ~SpanBlank(s, sp) /\ SpanColons(s, sp) # {}}

SpanKey(s, sp) == SubSeq(s, sp[1], Min(SpanColons(s, sp)) - 1)
SpanRawValue(s, sp) == SubSeq(s, Min(SpanColons(s, sp)) + 1, sp[2])

\* t without the white space at its two ends.
Trimmed(t) ==
  LET ink == {k \in 1..Len(t) : t[k] \notin White}
  IN IF ink = {} THEN <<>> ELSE SubSeq(t, Min(ink), Max(ink))

\* The lines of s whose key is exactly that of field f, and the last of them.
KeySpans(s, f) == {sp \in ColonSpans(s) : SpanKey(s, sp) = FieldKey(f)}
LastSpan(S) == CHOOSE sp \in S : \A t \in S : t[1] <= sp[1]

\* The spans of S in text order.
InOrder(S) ==
  [k \in 1..Cardinality(S) |->
     CHOOSE sp \in S : Cardinality({t \in S : t[1] < sp[1]}) = k - 1]

\* s with the lines of an unrecognized key removed.
WithoutUnknownKeys(s) ==
  LET keep == {sp \in LineSpans(s) :
                 sp \in ColonSpans(s) =>
                   \E f \in 1..5 : SpanKey(s, sp) = FieldKey(f)}
      ord == InOrder(keep)
  IN Join([k \in 1..Len(ord) |-> SpanText(s, ord[k])], "\n")

ParseDone == pc = "main" /\ parsed # "none"
ParseOk == ParseDone /\ err.isNil

-----------------------------------------------------------------------------
(* Properties.                                                             *)

\* C1: NewBuildInfoFromOldString returns an error exactly when some line of
\* its input is not blank after trimming and holds no colon.
C1_ErrorIffColonlessLine ==
  ParseDone => (~err.isNil <=> OffendingSpans(oldOutput) # {})

\* C1 witness: a call failed on a text whose first line was a valid one.
C1_Witness ==
  /\ ParseDone
  /\ ~err.isNil
  /\ \E sp \in ColonSpans(oldOutput) : sp[1] = 1

\* C2: a failing call returns the zero-valued BuildInfo, and its message
\* holds the text of the first line that is not blank and has no colon.
C2_FailureZeroAndNamesFirst ==
  (ParseDone /\ ~err.isNil) =>
    /\ res = [Version |-> <<>>, GitRevision |-> <<>>, GolangVersion |-> <<>>,
              BuildStatus |-> <<>>, GitTag |-> <<>>, Vendor |-> <<>>]
    /\ OffendingSpans(oldOutput) # {}
    /\ LET first == CHOOSE sp \in OffendingSpans(oldOutput) :
                      \A t \in OffendingSpans(oldOutput) : sp[1] <= t[1]
       IN err.msg = sErrPrefix \o SpanText(oldOutput, first) \o sErrSuffix

\* C2 witness: a call failed on a line that followed a line setting Version.
C2_Witness ==
  /\ ParseDone
  /\ ~err.isNil
  /\ oldOutput = sVersion \o <<":"," ","a"," ","\n"," ","x"," ">>

\* C3: after a call without error, each of the five fields whose key heads
\* some line holds the trimmed value of the last such line.
C3_LastOccurrenceWins ==
  ParseOk =>
    \A f \in 1..5 :
      KeySpans(oldOutput, f) # {} =>
        FieldValue(res, f) =
          Trimmed(SpanRawValue(oldOutput, LastSpan(KeySpans(oldOutput, f))))

\* C3 witness: two lines of key GitTag with different values were parsed.
C3_Witness ==
  /\ ParseOk
  /\ oldOutput = sGitTag \o <<":"," ","a"," ","\n">> \o sGitTag \o <<":","b">>
  /\ res.GitTag = <<"b">>

\* C4: the lines of an unrecognized key, Vendor included, change nothing:
\* the call returns what it returns for the text without them, and Vendor is
\* never set.
C4_UnknownKeysIgnored ==
  ParseDone =>
    /\ res.Vendor = <<>>
    /\ [res |-> res, err |-> err] =
         NewBuildInfoFromOldString(WithoutUnknownKeys(oldOutput))

\* C4 witness: a Vendor line and a Version line were parsed.
C4_Witness ==
  /\ ParseOk
  /\ oldOutput = sVendor \o <<":","b","\n">> \o sVersion \o <<":","b">>
  /\ res.Version = <<"b">>

\* C5: after a call without error, a field is set only by a line whose text
\* before its first colon is the field's name verbatim, and then to all the
\* text after that first colon, trimmed.
C5_FirstColonVerbatimKey ==
  ParseOk =>
    \A f \in 1..5 :
      /\ FieldValue(res, f) # <<>> => KeySpans(oldOutput, f) # {}
      /\ \A sp \in KeySpans(oldOutput, f) :
           sp = LastSpan(KeySpans(oldOutput, f)) =>
             /\ FieldValue(res, f) = Trimmed(SpanRawValue(oldOutput, sp))
             /\ Cardinality({k \in 1..Len(FieldValue(res, f)) :
                               FieldValue(res, f)[k] = ":"})
                  = Cardinality(SpanColons(oldOutput, sp)) - 1

\* C5 witness: a line of key " Version" and a Version line whose value
\* holds a colon were parsed.
C5_Witness ==
  /\ ParseOk
  /\ oldOutput = <<" ">> \o sVersion \o <<":","b","\n">>
                   \o sVersion \o <<":"," ","a",":","b","\r">>
  /\ res.Version = <<"a",":","b">>

\* C6 as claimed: after a call without error, a field whose key heads no
\* line holds the sentinel "unknown".
C6_AbsentFieldUnknown ==
  ParseOk =>
    \A f \in 1..5 :
      KeySpans(oldOutput, f) = {} => FieldValue(res, f) = sUnknown

\* C6 as amended: after a call without error, a field whose key heads no
\* line holds the empty string, the zero value of BuildInfo{}.
C6_AbsentFieldEmpty ==
  ParseOk =>
    \A f \in 1..5 :
      KeySpans(oldOutput, f) = {} => FieldValue(res, f) = <<>>

\* C6 witness: a text that sets Version and nothing else was parsed.
C6_Witness ==
  /\ ParseOk
  /\ oldOutput = sVersion \o <<":"," ","a"," ">>
  /\ res.Version = <<"a">>
  /\ res.GitTag = <<>>

\* The five fields of r hold no newline and no white space at either end.
FieldsPlain(r) ==
  \A f \in 1..5 :
    /\ \A k \in 1..Len(FieldValue(r, f)) : FieldValue(r, f)[k] # "\n"
    /\ Trimmed(FieldValue(r, f)) = FieldValue(r, f)

\* s is one "Key: value" line per field of r, in some order, each ended by
\* a newline.
IsLegacyOf(s, r) ==
  /\ Cardinality(LineSpans(s)) = 6
  /\ <<Len(s) + 1, Len(s)>> \in LineSpans(s)
  /\ \A f \in 1..5 :
       \E sp \in LineSpans(s) :
         SpanText(s, sp) = FieldKey(f) \o <<":"," ">> \o FieldValue(r, f)

SameFiveFields(r1, r2) == \A f \in 1..5 : FieldValue(r1, f) = FieldValue(r2, f)

\* C7: parsing the legacy text written for a record r of plain fields
\* returns, without error, r on the five fields; parsing the compact line
\* rendered for r does not return r.
C7_LegacyRoundTrip ==
  /\ (ParseDone /\ parsed = "text" /\ FieldsPlain(b) /\ IsLegacyOf(oldOutput, b))
       => (err.isNil /\ SameFiveFields(res, b))
  /\ (ParseDone /\ parsed = "out" /\ FieldsPlain(b)
        /\ oldOutput = b.Version \o <<"-">> \o b.GitRevision \o <<"-">>
                         \o b.BuildStatus)
       => ~(err.isNil /\ SameFiveFields(res, b))

\* C7 witness: the legacy text of a record whose Version and GitTag hold
\* colons was parsed.
C7_Witness ==
  /\ ParseOk
  /\ parsed = "text"
  /\ IsLegacyOf(oldOutput, b)
  /\ b.Version = sVersion \o <<":","a">>
  /\ b.GitTag = <<"a"," ",":","b">>
  /\ b.GolangVersion # <<>>

\* The program name of a command path a: "unknown" for the empty path, "/"
\* for a path of slashes only, otherwise the slash-free stretch that ends at
\* the last character that is not a slash.
ProgramName(a) ==
  LET solid == {k \in 1..Len(a) : a[k] # "/"}
  IN IF a = <<>> THEN sUnknown
     ELSE IF solid = {} THEN <<"/">>
     ELSE LET e == Max(solid)
              st == Min({k \in 1..e : \A m \in k..e : a[m] # "/"})
          IN SubSeq(a, st, e)

SingletonsStep ==
  /\ (pc' = "main") =>
       (/\ Info' = [Version |-> buildVersion',
                    GitRevision |-> buildGitRevision',
                    GolangVersion |-> goruntime'.Version,
                    BuildStatus |-> buildStatus',
                    GitTag |-> buildTag',
                    Vendor |-> buildVendor']
        /\ DockerInfo' = [Hub |-> buildHub', Tag |-> Info'.Version])
  /\ (pc = "main") => (Info' = Info /\ DockerInfo' = DockerInfo)
  /\ (pc = "load") => (Info.Version = <<>> /\ DockerInfo.Tag = <<>>)

====
